---- MODULE Spec2Model ----
(***************************************************************************)
(* Resource-identity normalization of the blog frontend (utils/api.js)     *)
(* and of the PHP backend (api/config.php).                                *)
(*                                                                         *)
(* A string is a sequence of one-character strings, so that prefix tests,  *)
(* slicing, trimming and percent-encoding are computed character by        *)
(* character as the code computes them.  A JavaScript / PHP value is a     *)
(* record [t, s]: t is the type tag ("string", "undefined", "null") or     *)
(* "TypeError" for a call that raised, s the characters of a string.       *)
(***************************************************************************)
EXTENDS Integers, Sequences, FiniteSets, TLC

VARIABLES raw, op, ret, window, NODE_ENV, BACKEND_URL, NEXT_PUBLIC_API_BASE_URL,
          clock, uploads, disk

frontend == <<raw, op, ret, window, NODE_ENV, BACKEND_URL, NEXT_PUBLIC_API_BASE_URL>>

backend == <<clock, uploads, disk>>

vars == <<frontend, backend>>

-----------------------------------------------------------------------------
(* Values *)

Str(s) == [t |-> "string", s |-> s]
Undefined == [t |-> "undefined", s |-> <<>>]
Null == [t |-> "null", s |-> <<>>]
TypeError == [t |-> "TypeError", s |-> <<>>]

\* JavaScript truthiness of undefined, null and strings: !v
IsFalsy(v) == v.t \in {"undefined", "null"} \/ (v.t = "string" /\ v.s = <<>>)

-----------------------------------------------------------------------------
(* String literals of the source, as character sequences *)

Slash == <<"/">>
BlogSlash == <<"b", "l", "o", "g", "/">>
SlashBlogSlash == Slash \o BlogSlash
CategorySlash == <<"c", "a", "t", "e", "g", "o", "r", "y", "/">>
SlashCategorySlash == Slash \o CategorySlash
TagSlash == <<"t", "a", "g", "/">>
SlashTagSlash == Slash \o TagSlash
UploadsSlash == <<"u", "p", "l", "o", "a", "d", "s", "/">>
SlashUploadsSlash == Slash \o UploadsSlash
Http == <<"h", "t", "t", "p">>
HttpScheme == Http \o <<":", "/", "/">>
HttpsScheme == Http \o <<"s", ":", "/", "/">>
DefaultBaseUrl == HttpScheme \o <<"l", "o", "c", "a", "l", "h", "o", "s", "t", ":", "5", "1", "7", "3">>

-----------------------------------------------------------------------------
(* String primitives *)

\* String.prototype.startsWith(p); strpos(s, p) === 0
StartsWith(s, p) == Len(s) >= Len(p) /\ SubSeq(s, 1, Len(p)) = p

\* String.prototype.slice(n) / substring(n) / substr(s, n) with 0 <= n
Slice(s, n) == SubSeq(s, n + 1, Len(s))

\* s.replace(/^p/, '') for a literal p: removes one leading p, if there is one
ReplacePrefix(s, p) == IF StartsWith(s, p) THEN Slice(s, Len(p)) ELSE s

\* indexOf / strpos: 0-based index of the first occurrence of p in s, -1 if none
IndexOf(s, p) ==
    LET hits == {i \in 0..(Len(s) - Len(p)) : SubSeq(s, i + 1, i + Len(p)) = p}
    IN IF hits = {} THEN -1 ELSE CHOOSE i \in hits : \A j \in hits : i <= j

RECURSIVE TrimStart(_)
\* leading white space removed
TrimStart(s) ==
    IF s # <<>> /\ Head(s) \in {" ", "\t", "\n", "\r"} THEN TrimStart(Tail(s)) ELSE s

RECURSIVE TrimEnd(_)
\* trailing white space removed
TrimEnd(s) ==
    IF s # <<>> /\ s[Len(s)] \in {" ", "\t", "\n", "\r"}
    THEN TrimEnd(SubSeq(s, 1, Len(s) - 1))
    ELSE s

\* String.prototype.trim()
trim(s) == TrimEnd(TrimStart(s))

\* The characters encodeURIComponent leaves alone: A-Z a-z 0-9 - _ . ! ~ * ' ( )
Unreserved ==
    {"a", "b", "c", "d", "e", "f", "g", "h", "i", "j", "k", "l", "m", "n", "o", "p", "q",
     "r", "s", "t", "u", "v", "w", "x", "y", "z",
     "A", "B", "C", "D", "E", "F", "G", "H", "I", "J", "K", "L", "M", "N", "O", "P", "Q",
     "R", "S", "T", "U", "V", "W", "X", "Y", "Z",
     "0", "1", "2", "3", "4", "5", "6", "7", "8", "9",
     "-", "_", ".", "!", "~", "*", "'", "(", ")"}

\* %XX of the reserved ASCII characters that occur in identifiers here
PercentCode(c) ==
    CASE c = "/" -> <<"%", "2", "F">>
      [] c = " " -> <<"%", "2", "0">>
      [] c = ":" -> <<"%", "3", "A">>
      [] c = "%" -> <<"%", "2", "5">>

RECURSIVE encodeURIComponent(_)
\* encodeURIComponent(s): every character outside Unreserved becomes %XX
encodeURIComponent(s) ==
    IF s = <<>> THEN <<>>
    ELSE (IF Head(s) \in Unreserved THEN <<Head(s)>> ELSE PercentCode(Head(s)))
         \o encodeURIComponent(Tail(s))

-----------------------------------------------------------------------------
(* utils of utils/api.js *)

\* cleanSlug that also strips the category prefixes
cleanSlug_AnyKind(slug) ==
    IF IsFalsy(slug) THEN slug
    ELSE Str(ReplacePrefix(ReplacePrefix(ReplacePrefix(ReplacePrefix(slug.s,
             SlashBlogSlash), BlogSlash), SlashCategorySlash), CategorySlash))

\* cleanSlug that stops at the first pattern that matches
cleanSlug_FirstMatchOnly(slug) ==
    IF IsFalsy(slug) THEN slug
    ELSE IF StartsWith(slug.s, SlashBlogSlash)
         THEN Str(ReplacePrefix(slug.s, SlashBlogSlash))
         ELSE Str(ReplacePrefix(slug.s, BlogSlash))

\* utils.cleanSlug
cleanSlug(slug) ==
    IF IsFalsy(slug) THEN slug
    ELSE Str(ReplacePrefix(ReplacePrefix(slug.s, SlashBlogSlash), BlogSlash))

\* getBlogUrl that serves the blog at the root on localhost
getBlogUrl_LocalRoot(slug, win) ==
    IF slug.t # "string" THEN TypeError
    ELSE LET cleaned == ReplacePrefix(ReplacePrefix(slug.s, SlashBlogSlash), BlogSlash)
         IN IF win.defined
            THEN LET isLocalhost == win.port = "5173" \/ win.hostname = "localhost"
                 IN IF isLocalhost THEN Str(Slash \o cleaned)
                                   ELSE Str(SlashBlogSlash \o cleaned)
            ELSE Str(SlashBlogSlash \o cleaned)

\* utils.getBlogUrl; win is the global window ([defined |-> FALSE] on the server).
\* slug.replace on undefined or null raises a TypeError.
getBlogUrl(slug, win) ==
    IF slug.t # "string" THEN TypeError
    ELSE LET cleaned == ReplacePrefix(ReplacePrefix(slug.s, SlashBlogSlash), BlogSlash)
         IN IF win.defined
            THEN LET isLocalhost == win.port = "5173" \/ win.hostname = "localhost"
                 IN IF isLocalhost THEN Str(SlashBlogSlash \o cleaned)
                                   ELSE Str(SlashBlogSlash \o cleaned)
            ELSE Str(SlashBlogSlash \o cleaned)

\* the prefix stripping of utils.getCategoryUrl (its local cleanSlug)
stripCategoryPrefix(s) == ReplacePrefix(ReplacePrefix(s, SlashCategorySlash), CategorySlash)

\* utils.getCategoryUrl
getCategoryUrl(slug) ==
    IF slug.t # "string" THEN TypeError
    ELSE Str(SlashCategorySlash \o stripCategoryPrefix(slug.s))

\* utils.getTagUrl
getTagUrl(tag) ==
    IF tag.t # "string" THEN TypeError
    ELSE Str(SlashTagSlash \o encodeURIComponent(trim(tag.s)))

\* export const BASE_URL = process.env.BACKEND_URL
BASE_URL == BACKEND_URL

ProductionUrl == HttpsScheme \o <<"b", "o", "g", "a", "n", "t", "o", ".", "c", "o", "m">>

LocalBackend == HttpScheme \o <<"l", "o", "c", "a", "l", "h", "o", "s", "t", ":", "8", "0", "0", "0">>

\* BASE_URL of the module that detects the host; win is the global window, env
\* is process.env.NEXT_PUBLIC_API_BASE_URL
BASE_URL_001(win, env) ==
    IF win.defined /\ ~IsFalsy(env) THEN env
    ELSE IF win.defined
         THEN IF win.hostname = "localhost" \/ win.hostname = "127.0.0.1"
              THEN Str(LocalBackend)
              ELSE Str(ProductionUrl)
         ELSE IF IsFalsy(env) THEN Str(ProductionUrl) ELSE env

\* utils.getImageUrl; nodeEnv is process.env.NODE_ENV, baseURL the module's BASE_URL
getImageUrl(imagePath, nodeEnv, baseURL) ==
    IF IsFalsy(imagePath) THEN Str(<<>>)
    ELSE IF StartsWith(imagePath.s, Http) THEN imagePath
    ELSE LET cleanPath == IF StartsWith(imagePath.s, Slash)
                          THEN Slice(imagePath.s, 1)
                          ELSE imagePath.s
         IN IF nodeEnv = "production"
            THEN IF StartsWith(cleanPath, UploadsSlash)
                 THEN Str(SlashUploadsSlash \o Slice(cleanPath, Len(UploadsSlash)))
                 ELSE Str(SlashUploadsSlash \o cleanPath)
            ELSE LET baseUrl == IF IsFalsy(baseURL) THEN DefaultBaseUrl ELSE baseURL.s
                 IN IF StartsWith(cleanPath, UploadsSlash)
                    THEN Str(baseUrl \o Slash \o cleanPath)
                    ELSE Str(baseUrl \o SlashUploadsSlash \o cleanPath)

-----------------------------------------------------------------------------
(* Read-side sanitizers of api/config.php *)

\* PHP truthiness of null and strings: !$v
PhpFalsy(v) == v.t = "null" \/ (v.t = "string" /\ (v.s = <<>> \/ v.s = <<"0">>))

\* preg_replace('/^https?:\/\/[^\/]+\//', '', s): scheme, a non-empty host and
\* the slash that ends it are removed; without that slash nothing matches
StripSchemeHost(s) ==
    LET scheme == IF StartsWith(s, HttpsScheme) THEN HttpsScheme
                  ELSE IF StartsWith(s, HttpScheme) THEN HttpScheme
                  ELSE <<>>
        rest == Slice(s, Len(scheme))
        i == IndexOf(rest, Slash)
    IN IF scheme # <<>> /\ i >= 1 THEN Slice(rest, i + 1) ELSE s

RECURSIVE ltrim(_)
\* ltrim(s, '/'): every leading slash removed
ltrim(s) == IF s # <<>> /\ Head(s) = "/" THEN ltrim(Tail(s)) ELSE s

\* $v ?: null
OrNull(s) == IF PhpFalsy(Str(s)) THEN Null ELSE Str(s)

\* getFullImageUrl($imagePath)
getFullImageUrl(imagePath) ==
    IF PhpFalsy(imagePath) THEN Null
    ELSE LET p1 == IF StartsWith(imagePath.s, HttpScheme) \/ StartsWith(imagePath.s, HttpsScheme)
                   THEN StripSchemeHost(imagePath.s)
                   ELSE imagePath.s
         IN OrNull(ltrim(p1))

\* cleanImagePath($imagePath)
cleanImagePath(imagePath) ==
    IF PhpFalsy(imagePath) THEN Null
    ELSE LET p1 == StripSchemeHost(imagePath.s)
             p2 == ltrim(p1)
             p3 == IF IndexOf(p2, UploadsSlash) # 0 /\ IndexOf(p2, UploadsSlash) # -1
                   THEN Slice(p2, IndexOf(p2, UploadsSlash))
                   ELSE p2
         IN OrNull(p3)

-----------------------------------------------------------------------------
(* uploadFile of api/config.php *)

MaxClock == 3
TicksPerSecond == 2

\* the requests that upload concurrently, each its own PHP process
Requests == {"r1", "r2"}

allowed_types == {"image/jpeg", "image/jpg", "image/png", "image/gif", "image/webp"}

max_size == 5 * 1024 * 1024

\* $_FILES entries and subfolders a request may bring
Files ==
    [name : {"a.png", "a.jpg"}, error : {"UPLOAD_ERR_OK", "UPLOAD_ERR_PARTIAL"},
     type : {"image/png", "text/html"}, size : {1024, max_size + 1}]

Subfolders == {"", "blog"}

\* pathinfo($file['name'], PATHINFO_EXTENSION)
Extension(name) == IF name = "a.png" THEN "png" ELSE "jpg"

\* uniqid() read at clock value c: the seconds and the microseconds within the
\* second, printed in fixed width ("%08x%05x"), so the pair stands for the string
uniqid(c) == <<c \div TicksPerSecond, c % TicksPerSecond>>

\* time() read at clock value c
time(c) == c \div TicksPerSecond

\* uniqid() . '_' . time() . '.' . $extension
Filename(u, tm, ext) == <<u, "_", tm, ".", ext>>

\* 'uploads/' . ($subfolder ? $subfolder . '/' : '') . $filename
RelativePath(subfolder, filename) ==
    IF subfolder = "" THEN <<"uploads/", filename>> ELSE <<"uploads/", subfolder, "/", filename>>

NoCall == [pc |-> "idle", file |-> <<>>, subfolder |-> "", uniq |-> <<>>, filename |-> <<>>,
           result |-> <<>>]

\* no upload is under way and the upload directory is empty
NoUploads ==
    /\ clock = 0
    /\ uploads = [r \in Requests |-> NoCall]
    /\ disk = [dirs |-> {}, files |-> {}]

\* the system clock advances
Tick == clock < MaxClock /\ clock' = clock + 1 /\ UNCHANGED <<uploads, disk, frontend>>

\* uploadFile up to the size check: the subfolder is created, and a failed
\* upload, a type outside the allow-list or an oversized file returns false
\* (pc "false"; pc "returned" is a call that returned result, a relative path)
Validate(r) ==
    /\ uploads[r].pc = "idle"
    /\ \E file \in Files, subfolder \in Subfolders :
          /\ disk' = [disk EXCEPT !.dirs = IF subfolder # "" THEN @ \cup {subfolder} ELSE @]
          /\ uploads' = [uploads EXCEPT ![r] =
                [@ EXCEPT !.file = file, !.subfolder = subfolder,
                          !.pc = IF \/ file.error # "UPLOAD_ERR_OK"
                                    \/ file.type \notin allowed_types
                                    \/ file.size > max_size
                                 THEN "false" ELSE "validated"]]
    /\ UNCHANGED <<clock, frontend>>

\* uniqid() reads the clock
Uniqid(r) ==
    /\ uploads[r].pc = "validated"
    /\ uploads' = [uploads EXCEPT ![r] = [@ EXCEPT !.uniq = uniqid(clock), !.pc = "uniqid"]]
    /\ UNCHANGED <<clock, disk, frontend>>

\* time() reads the clock and the filename is put together
Time(r) ==
    /\ uploads[r].pc = "uniqid"
    /\ uploads' = [uploads EXCEPT ![r] =
          [@ EXCEPT !.filename = Filename(uploads[r].uniq, time(clock),
                                         Extension(uploads[r].file.name)),
                    !.pc = "named"]]
    /\ UNCHANGED <<clock, disk, frontend>>

\* move_uploaded_file succeeds, replacing whatever file has that name, and the
\* relative path is returned
Move(r) ==
    /\ uploads[r].pc = "named"
    /\ LET path == RelativePath(uploads[r].subfolder, uploads[r].filename)
       IN /\ disk' = [disk EXCEPT !.files =
                        {f \in @ : f.path # path} \cup {[path |-> path, by |-> r]}]
          /\ uploads' = [uploads EXCEPT ![r] = [@ EXCEPT !.result = path, !.pc = "returned"]]
    /\ UNCHANGED <<clock, frontend>>

\* move_uploaded_file fails and false is returned
MoveFails(r) ==
    /\ uploads[r].pc = "named"
    /\ uploads' = [uploads EXCEPT ![r] = [@ EXCEPT !.pc = "false"]]
    /\ UNCHANGED <<clock, disk, frontend>>

-----------------------------------------------------------------------------
(* Inputs and execution contexts *)

MaxSlugPieces == 4
MaxPathPieces == 4

RECURSIVE Concats(_, _)
\* every concatenation of at most n pieces of P
Concats(P, n) ==
    IF n = 0 THEN {<<>>}
    ELSE LET shorter == Concats(P, n - 1)
         IN shorter \cup {p \o s : p \in P, s \in shorter}

\* raw slugs, categories and tags as the backend may send them
SlugPieces == {Slash, BlogSlash, CategorySlash, TagSlash, <<"x">>, <<" ">>}
SlugInputs == {Str(s) : s \in Concats(SlugPieces, MaxSlugPieces)} \cup {Undefined, Null}

\* raw image paths as the database may hold them
HostH == <<"h">>
PathPieces ==
    {Slash, UploadsSlash, BlogSlash, <<"x">>, Http,
     HttpScheme \o HostH, HttpsScheme \o HostH, <<"f", "t", "p", ":", "/", "/">> \o HostH}
PathInputs == {Str(s) : s \in Concats(PathPieces, MaxPathPieces)} \cup {Undefined, Null}

NoWindow == [defined |-> FALSE, hostname |-> "", port |-> ""]
Windows ==
    {NoWindow,
     [defined |-> TRUE, hostname |-> "localhost", port |-> "5173"],
     [defined |-> TRUE, hostname |-> "boganto.com", port |-> ""]}

InitContext ==
    /\ window \in Windows
    /\ NODE_ENV \in {"production", "development"}
    /\ BACKEND_URL \in {Undefined, Str(LocalBackend)}
    /\ op = "none"
    /\ ret = Undefined

\* utils/api.js never reads NEXT_PUBLIC_API_BASE_URL
Init == raw \in SlugInputs /\ InitContext /\ NEXT_PUBLIC_API_BASE_URL = Undefined /\ NoUploads

InitImage ==
    raw \in PathInputs /\ InitContext /\ NEXT_PUBLIC_API_BASE_URL = Undefined /\ NoUploads

\* the pages a browser may be on when the module is loaded
BaseWindows ==
    {NoWindow}
    \cup {[defined |-> TRUE, hostname |-> h, port |-> q] :
             h \in {"localhost", "127.0.0.1", "boganto.com", "www.boganto.com"},
             q \in {"", "5173", "3000"}}

\* a configured address
OverrideUrl == HttpsScheme \o <<"a", "p", "i", ".", "h">>

\* an environment variable: unset, set to "", or set to an address
EnvValues == {Undefined, Str(<<>>), Str(OverrideUrl)}

InitBase ==
    /\ raw = Undefined
    /\ op = "none"
    /\ ret = Undefined
    /\ window \in BaseWindows
    /\ NODE_ENV \in {"production", "development"}
    /\ BACKEND_URL \in EnvValues
    /\ NEXT_PUBLIC_API_BASE_URL \in EnvValues
    /\ NoUploads

\* the backend alone: no frontend function is called
InitUpload ==
    /\ raw = Undefined
    /\ op = "none"
    /\ ret = Undefined
    /\ window = NoWindow
    /\ NODE_ENV = "production"
    /\ BACKEND_URL = Undefined
    /\ NEXT_PUBLIC_API_BASE_URL = Undefined
    /\ NoUploads

Call(name, result) ==
    /\ op' = name
    /\ ret' = result
    /\ UNCHANGED <<raw, window, NODE_ENV, BACKEND_URL, NEXT_PUBLIC_API_BASE_URL, backend>>

CleanSlug == Call("cleanSlug", cleanSlug(raw))

GetBlogUrl == Call("getBlogUrl", getBlogUrl(raw, window))

GetCategoryUrl == Call("getCategoryUrl", getCategoryUrl(raw))

GetTagUrl == Call("getTagUrl", getTagUrl(raw))

GetImageUrl == Call("getImageUrl", getImageUrl(raw, NODE_ENV, BASE_URL))

\* PHP has no undefined: the sanitizers are called with a string or null
GetFullImageUrl == raw.t # "undefined" /\ Call("getFullImageUrl", getFullImageUrl(raw))

CleanImagePath == raw.t # "undefined" /\ Call("cleanImagePath", cleanImagePath(raw))

\* loading utils/api.js evaluates its BASE_URL
LoadApi == Call("BASE_URL", BASE_URL)

\* loading the host-detecting module evaluates its BASE_URL
LoadApi001 == Call("BASE_URL_001", BASE_URL_001(window, NEXT_PUBLIC_API_BASE_URL))

Next == CleanSlug \/ GetBlogUrl \/ GetCategoryUrl \/ GetTagUrl

NextImage == GetImageUrl \/ GetFullImageUrl \/ CleanImagePath

\* the route and slug functions applied to a raw identifier
Spec == Init /\ [][Next]_vars

\* the asset resolver and the backend sanitizers applied to a raw image path
SpecImage == InitImage /\ [][NextImage]_vars

NextBase == LoadApi \/ LoadApi001

\* the two modules' BASE_URL evaluated in an execution context
SpecBase == InitBase /\ [][NextBase]_vars

NextUpload ==
    \/ Tick
    \/ \E r \in Requests : Validate(r) \/ Uniqid(r) \/ Time(r) \/ Move(r) \/ MoveFails(r)

\* concurrent requests, each calling uploadFile once
SpecUpload == InitUpload /\ [][NextUpload]_vars

-----------------------------------------------------------------------------
(* Properties *)

IsString(v) == v.t = "string"

\* s is p followed by a name that itself begins with none of the prefixes in P
PrefixedOnce(s, p, P) ==
    StartsWith(s, p) /\ \A q \in P : ~StartsWith(Slice(s, Len(p)), q)

\* C1: normalization is idempotent: cleanSlug applied to its own result changes
\* nothing, and neither does the category prefix stripping of getCategoryUrl
\* applied to its own result.
C1_Idempotent ==
    /\ (op = "cleanSlug" => cleanSlug(ret) = ret)
    /\ (op = "getCategoryUrl" /\ IsString(raw)
            => stripCategoryPrefix(stripCategoryPrefix(raw.s)) = stripCategoryPrefix(raw.s))

\* C2: for a short name n that begins with neither "blog/" nor "/blog/" and a
\* raw slug n, "blog/"+n or "/blog/"+n, cleanSlug returns n and getBlogUrl
\* returns "/blog/"+n under every window, never a route that starts "/blog/blog/".
C2_PrefixCorrection ==
    \A p \in {<<>>, BlogSlash, SlashBlogSlash} :
        (IsString(raw) /\ PrefixedOnce(raw.s, p, {BlogSlash, SlashBlogSlash}))
        => LET n == Slice(raw.s, Len(p))
           IN /\ (op = "cleanSlug" => ret = Str(n))
              /\ (op = "getBlogUrl"
                    => /\ ret = Str(SlashBlogSlash \o n)
                       /\ ~StartsWith(ret.s, SlashBlogSlash \o BlogSlash))

C2_Witness ==
    /\ op = "getBlogUrl"
    /\ raw = Str(BlogSlash \o <<"x">>)
    /\ window.defined /\ window.hostname = "localhost"
    /\ ret = Str(SlashBlogSlash \o <<"x">>)

\* C3: cleanSlug returns unchanged every string that begins with "category/",
\* "/category/", "tag/" or "/tag/", and getCategoryUrl removes no blog or tag
\* prefix: it returns "/category/" followed by the whole input.
C3_NoCrossStrip ==
    IsString(raw) =>
        /\ (op = "cleanSlug"
            /\ \E q \in {CategorySlash, SlashCategorySlash, TagSlash, SlashTagSlash} :
                   StartsWith(raw.s, q))
           => ret = raw
        /\ (op = "getCategoryUrl"
            /\ \E q \in {BlogSlash, SlashBlogSlash, TagSlash, SlashTagSlash} :
                   StartsWith(raw.s, q))
           => ret = Str(SlashCategorySlash \o raw.s)

C3_Witness ==
    /\ op = "cleanSlug"
    /\ raw = Str(SlashCategorySlash \o BlogSlash \o <<"x">>)
    /\ ret = raw

\* what C4 says one call leaves of s: a leading "/blog/" removed if present,
\* otherwise a leading "blog/" removed if present
SinglePass(s) ==
    IF StartsWith(s, SlashBlogSlash) THEN Slice(s, Len(SlashBlogSlash))
    ELSE IF StartsWith(s, BlogSlash) THEN Slice(s, Len(BlogSlash))
    ELSE s

\* C4 as stated: cleanSlug, and the stripping inside getBlogUrl, remove at most
\* one prefix occurrence, so "/blog/blog/"+x becomes "blog/"+x.
C4_SinglePass ==
    IsString(raw) =>
        /\ (op = "cleanSlug" => ret = Str(SinglePass(raw.s)))
        /\ (op = "getBlogUrl" => ret = Str(SlashBlogSlash \o SinglePass(raw.s)))

\* what one call leaves of s, by the shape of s
TwoPatterns(s) ==
    IF StartsWith(s, SlashBlogSlash \o BlogSlash)
    THEN Slice(s, Len(SlashBlogSlash) + Len(BlogSlash))
    ELSE SinglePass(s)

\* C4: one call applies each of the two patterns once, in order, and does not
\* loop: it removes a leading "/blog/" and then, from what remains, a leading
\* "blog/"; "blog/blog/"+x becomes "blog/"+x and "/blog/blog/"+x becomes x.
C4_EachPatternOnce ==
    IsString(raw) =>
        /\ (op = "cleanSlug" => ret = Str(TwoPatterns(raw.s)))
        /\ (op = "getBlogUrl" => ret = Str(SlashBlogSlash \o TwoPatterns(raw.s)))

C4_Witness ==
    /\ op = "cleanSlug"
    /\ raw = Str(SlashBlogSlash \o BlogSlash \o <<"x">>)
    /\ ret = Str(<<"x">>)

\* C5: for an identifier n that does not begin with its kind's prefix,
\* getCategoryUrl of n, "category/"+n and "/category/"+n is "/category/"+n, and
\* getTagUrl of n, "tag/"+n and "/tag/"+n is "/tag/" followed by the
\* percent-encoding of n trimmed.
C5_OwnPrefixRoutes ==
    IsString(raw) =>
        /\ \A p \in {<<>>, CategorySlash, SlashCategorySlash} :
               (op = "getCategoryUrl"
                /\ PrefixedOnce(raw.s, p, {CategorySlash, SlashCategorySlash}))
               => ret = Str(SlashCategorySlash \o Slice(raw.s, Len(p)))
        /\ \A p \in {<<>>, TagSlash, SlashTagSlash} :
               (op = "getTagUrl" /\ PrefixedOnce(raw.s, p, {TagSlash, SlashTagSlash}))
               => ret = Str(SlashTagSlash \o encodeURIComponent(trim(Slice(raw.s, Len(p)))))

Alpha ==
    {"a", "b", "c", "d", "e", "f", "g", "h", "i", "j", "k", "l", "m", "n", "o", "p", "q",
     "r", "s", "t", "u", "v", "w", "x", "y", "z"}

\* s begins with a URI scheme: a letter, then letters, digits, "+", "-", ".", then ":"
BeginsWithScheme(s) ==
    LET i == IndexOf(s, <<":">>)
    IN /\ i >= 1
       /\ s[1] \in Alpha
       /\ \A k \in 1..i : s[k] \in Alpha \cup {"0", "1", "2", "3", "4", "5", "6", "7", "8", "9", "+", "-", "."}

\* the base address getImageUrl uses outside production
LocalBase == IF IsFalsy(BASE_URL) THEN DefaultBaseUrl ELSE BASE_URL.s

\* C6: for a non-empty image path that begins with no URI scheme, getImageUrl
\* gives "/uploads/<rest>" in production and "<local-base>/uploads/<rest>"
\* otherwise, <rest> being the path without its leading slash and leading "uploads/".
C6_AssetAsymmetry ==
    (op = "getImageUrl" /\ IsString(raw) /\ raw.s # <<>> /\ ~BeginsWithScheme(raw.s))
    => LET rest == ReplacePrefix(ReplacePrefix(raw.s, Slash), UploadsSlash)
       IN IF NODE_ENV = "production"
          THEN ret = Str(SlashUploadsSlash \o rest)
          ELSE ret = Str(LocalBase \o SlashUploadsSlash \o rest)

\* C7: an image path that begins with a URI scheme is returned exactly
\* unchanged by getImageUrl, in production and outside it.
C7_AbsolutePassthrough ==
    (op = "getImageUrl" /\ IsString(raw) /\ BeginsWithScheme(raw.s)) => ret = raw

\* 0-based index of the first path segment "uploads/" of s, -1 if there is none
UploadsSegment(s) ==
    IF StartsWith(s, UploadsSlash) THEN 0
    ELSE IF IndexOf(s, SlashUploadsSlash) >= 0 THEN IndexOf(s, SlashUploadsSlash) + 1
    ELSE -1

\* C8: in production, for a non-absolute image path in which the segment
\* "uploads/" occurs anywhere, getImageUrl returns "/" followed by the path from
\* that "uploads/" on.
C8_ProductionRebase ==
    (op = "getImageUrl" /\ NODE_ENV = "production" /\ IsString(raw)
     /\ ~BeginsWithScheme(raw.s) /\ UploadsSegment(raw.s) >= 0)
    => ret = Str(Slash \o Slice(raw.s, UploadsSegment(raw.s)))

\* C9: for a non-empty stored image path, what getFullImageUrl and
\* cleanImagePath return has no scheme and host, has no leading slash, and
\* starts at "uploads/" whenever "uploads/" occurs in it.
C9_CanonicalOnRead ==
    (op \in {"getFullImageUrl", "cleanImagePath"} /\ IsString(raw) /\ raw.s # <<>>
     /\ IsString(ret))
    => /\ ~StartsWith(ret.s, HttpScheme) /\ ~StartsWith(ret.s, HttpsScheme)
       /\ ~StartsWith(ret.s, Slash)
       /\ IndexOf(ret.s, UploadsSlash) \in {-1, 0}

\* C10: for an input that is undefined, null or "", cleanSlug returns the
\* input, getImageUrl returns "", and getBlogUrl, getCategoryUrl and getTagUrl
\* return a string instead of raising an error.
C10_NeverThrows ==
    raw \in {Undefined, Null, Str(<<>>)} =>
        /\ (op = "cleanSlug" => ret = raw)
        /\ (op = "getImageUrl" => ret = Str(<<>>))
        /\ (op \in {"getBlogUrl", "getCategoryUrl", "getTagUrl"} => IsString(ret))

\* the base address C11 prescribes for a window and a configured address
Precedence(win, override) ==
    IF ~IsFalsy(override) THEN override
    ELSE IF win.defined
         THEN IF win.hostname \in {"localhost", "127.0.0.1"}
              THEN Str(LocalBackend)
              ELSE Str(ProductionUrl)
         ELSE Str(ProductionUrl)

\* C11: BASE_URL is the configured address if there is one, in the browser and
\* on the server alike; otherwise the local development address on localhost
\* or 127.0.0.1 and the production address on any other host or without a
\* window; it is never undefined.
C11_BasePrecedence ==
    /\ (op = "BASE_URL" => IsString(ret) /\ ret = Precedence(window, BACKEND_URL))
    /\ (op = "BASE_URL_001"
            => IsString(ret) /\ ret = Precedence(window, NEXT_PUBLIC_API_BASE_URL))

\* C11 of the host-detecting module alone
C11_HostDetecting ==
    op = "BASE_URL_001" => IsString(ret) /\ ret = Precedence(window, NEXT_PUBLIC_API_BASE_URL)

\* request r has returned a relative path
Uploaded(r) == uploads[r].pc = "returned"

\* C12: two successful uploadFile calls into the same subfolder return
\* different relative paths, in every interleaving, so neither file replaces the other.
C12_NoCollision ==
    \A r1, r2 \in Requests :
        (r1 # r2 /\ Uploaded(r1) /\ Uploaded(r2)
         /\ uploads[r1].subfolder = uploads[r2].subfolder)
        => uploads[r1].result # uploads[r2].result

====
